---- MODULE Spec2Model ----
(***************************************************************************)
(* Chronex (src/app.py): a Flask application with four tables (User, Task, *)
(* Note, Transaction) and one handler per route.  Each handler is one      *)
(* action: it reads the caller's session, applies its transition to the    *)
(* tables and commits.  The tables are functions from row id to row.       *)
(***************************************************************************)
EXTENDS Integers, FiniteSets, Sequences, TLC

VARIABLES
    users,         \* table User: id -> row
    tasks,         \* table Task: id -> row
    notes,         \* table Note: id -> row
    transactions,  \* table Transaction: id -> row
    session,       \* per browser client: the user id in its session cookie, 0 if none
    now,           \* datetime.utcnow(), in whole seconds
    today,         \* date.today(), as a day number
    request,       \* the request served last: route, caller, argument
    response,      \* what that request returned: view or JSON body, flashed messages
    ntoggles,      \* history: /task/toggle requests served in SpecToggle
    threads        \* per server thread: the request it is serving and what it has read

tables == <<users, tasks, notes, transactions>>
vars == <<users, tasks, notes, transactions, session, now, today, request, response, ntoggles,
          threads>>

-----------------------------------------------------------------------------
(* Bounds of the model.                                                    *)
NumClients == 1
MaxUsers == 2
MaxTasks == 2
MaxTime == 20
MaxDay == 2
MaxStars == 3
MaxEnergy == 12
MaxPoints == 30
MaxMinutes == 50
MaxToggles == 30
MaxRows == 1
MaxAward == 10
MaxActive == 1
MaxTransactions == 4
NumThreads == 2

Clients == 1..NumClients
Threads == 1..NumThreads

-----------------------------------------------------------------------------
(* Values.                                                                 *)

\* A NULL string column (email) and a NULL date column (focus_tracking_date).
None == "None"
NoDate == 0

Max(S) == CHOOSE x \in S : \A y \in S : y <= x

\* int(x / d) for an integer x and d > 0: Python's int() truncates toward zero.
IntDiv(x, d) == IF x >= 0 THEN x \div d ELSE -((-x) \div d)

\* str.strip().lower() on the form values the model sends.
StripLower(s) ==
    CASE s = "Artur" -> "artur"
      [] s = " bea " -> "bea"
      [] s = "Bea" -> "bea"
      [] s = "Artur@Demo.com" -> "artur@demo.com"
      [] s = "Bea@X.org" -> "bea@x.org"
      [] OTHER -> s

\* werkzeug's generate_password_hash / check_password_hash: a one-way tag of
\* the password; a hash verifies exactly the password it was made from.
generate_password_hash(password) == <<"hash", password>>
check_password_hash(pwhash, password) == pwhash = <<"hash", password>>

\* A new row id: SQLite gives an INTEGER PRIMARY KEY the largest id in use + 1.
NewId(table) == IF DOMAIN table = {} THEN 1 ELSE Max(DOMAIN table) + 1

\* session.add(row) / session.delete(row) on a table.
Insert(table, id, row) == [i \in DOMAIN table \cup {id} |-> IF i = id THEN row ELSE table[i]]
Delete(table, ids) == [i \in DOMAIN table \ ids |-> table[i]]

\* The User columns with their defaults, as User(...) fills them on insert.
NewUser(username, email, password_hash, first_login, email_added, created_at) ==
    [ username |-> username,
      email |-> email,
      password_hash |-> password_hash,
      total_focus_points |-> 0,
      stars_earned |-> 0,
      energy_bank_balance |-> 0,
      last_energy_collection_time |-> created_at,
      focus_minutes_today |-> 0,
      focus_tracking_date |-> NoDate,
      achievement_first_login |-> first_login,
      achievement_first_focus |-> FALSE,
      achievement_first_task |-> FALSE,
      achievement_first_note |-> FALSE,
      achievement_email_added |-> email_added,
      savings_goal_target |-> <<>> ]

\* Task(...) and Note(...) with their defaults.
NewTask(user_id, priority_level) ==
    [user_id |-> user_id, priority_level |-> priority_level, is_completed |-> FALSE]
NewNote(user_id, note_content) ==
    [user_id |-> user_id, note_content |-> note_content]

\* Responses: a redirect with the messages flashed, a rendered page, a JSON body.
Redirect(to, flashes) == [kind |-> "redirect", to |-> to, flash |-> flashes]
Render(page, body) == [kind |-> "render", to |-> page, flash |-> <<>>, body |-> body]
Json(body) == [kind |-> "json", to |-> "", flash |-> <<>>, body |-> body]

\* flask_login: current_user is the row the session cookie names, when it exists.
Authenticated(c) == session[c] \in DOMAIN users

\* A server thread that serves no request.
IdleThread ==
    [ pc |-> "idle", op |-> "", user |-> 0, current_user |-> <<>>,
      found_task |-> <<>>, award |-> 0, overlapped |-> FALSE ]

\* @login_required on an anonymous caller: redirect to the login view, nothing else.
Unauthorized ==
    /\ response' = Redirect("show_landing_page", <<>>)
    /\ UNCHANGED <<users, tasks, notes, transactions, session>>

-----------------------------------------------------------------------------
(* The state after database.create_all() and create_demo_account().        *)
create_demo_account ==
    Insert(<<>>, 1,
        NewUser("artur", "artur@demo.com", generate_password_hash("123"), TRUE, TRUE, 0))

Init ==
    /\ users = create_demo_account
    /\ tasks = <<>>
    /\ notes = <<>>
    /\ transactions = <<>>
    /\ session = [c \in Clients |-> 0]
    /\ now = 0
    /\ today = 1
    /\ request = [route |-> "", user |-> 0, arg |-> 0]
    /\ response = Redirect("", <<>>)
    /\ ntoggles = 0
    /\ threads = [t \in Threads |-> IdleThread]

-----------------------------------------------------------------------------
(* Authentication routes.                                                  *)

\* POST /login
\* The stored usernames and emails are lower case already (every write
\* lower-cases them), so func.lower(column) is the column itself.
handle_login(c, email, password) ==
    LET login_identifier == StripLower(email)
        matching == {i \in DOMAIN users :
                        \/ users[i].email = login_identifier
                        \/ users[i].username = login_identifier}
        found_user == IF matching = {} THEN 0 ELSE CHOOSE i \in matching : \A j \in matching : i <= j
    IN  IF found_user # 0 /\ check_password_hash(users[found_user].password_hash, password)
        THEN /\ session' = [session EXCEPT ![c] = found_user]
             /\ IF ~users[found_user].achievement_first_login
                THEN /\ users' = [users EXCEPT ![found_user].achievement_first_login = TRUE]
                     /\ response' = Redirect("show_dashboard",
                                         <<"Achievement unlocked: First Steps!">>)
                ELSE /\ users' = users
                     /\ response' = Redirect("show_dashboard", <<>>)
             /\ UNCHANGED <<tasks, notes, transactions>>
        ELSE /\ response' = Redirect("show_landing_page",
                                <<"Invalid email/username or password">>)
             /\ UNCHANGED <<users, tasks, notes, transactions, session>>

\* Mutant of handle_registration: the flag is left at its column default, TRUE.
handle_registration_default_flag(c, username_in, email_in, password, confirm_password) ==
    LET username == StripLower(username_in)
        email == StripLower(email_in)
    IN  IF password # confirm_password
        THEN /\ response' = Redirect("show_landing_page", <<"Passwords do not match">>)
             /\ UNCHANGED <<users, tasks, notes, transactions, session>>
        ELSE IF \E i \in DOMAIN users : users[i].username = username
        THEN /\ response' = Redirect("show_landing_page", <<"Username already taken">>)
             /\ UNCHANGED <<users, tasks, notes, transactions, session>>
        ELSE IF email # "" /\ \E i \in DOMAIN users : users[i].email = email
        THEN /\ response' = Redirect("show_landing_page", <<"Email already registered">>)
             /\ UNCHANGED <<users, tasks, notes, transactions, session>>
        ELSE /\ users' = Insert(users, NewId(users),
                            NewUser(username,
                                    IF email # "" THEN email ELSE None,
                                    generate_password_hash(password),
                                    FALSE,
                                    TRUE,
                                    now))
             /\ response' = Redirect("show_landing_page", <<"Account created!">>)
             /\ UNCHANGED <<tasks, notes, transactions, session>>

\* POST /register
handle_registration(c, username_in, email_in, password, confirm_password) ==
    LET username == StripLower(username_in)
        email == StripLower(email_in)
    IN  IF password # confirm_password
        THEN /\ response' = Redirect("show_landing_page", <<"Passwords do not match">>)
             /\ UNCHANGED <<users, tasks, notes, transactions, session>>
        ELSE IF \E i \in DOMAIN users : users[i].username = username
        THEN /\ response' = Redirect("show_landing_page", <<"Username already taken">>)
             /\ UNCHANGED <<users, tasks, notes, transactions, session>>
        ELSE IF email # "" /\ \E i \in DOMAIN users : users[i].email = email
        THEN /\ response' = Redirect("show_landing_page", <<"Email already registered">>)
             /\ UNCHANGED <<users, tasks, notes, transactions, session>>
        ELSE /\ users' = Insert(users, NewId(users),
                            NewUser(username,
                                    IF email # "" THEN email ELSE None,
                                    generate_password_hash(password),
                                    FALSE,
                                    IF email # "" THEN TRUE ELSE FALSE,
                                    now))
             /\ response' = Redirect("show_landing_page", <<"Account created!">>)
             /\ UNCHANGED <<tasks, notes, transactions, session>>

\* GET /logout
handle_logout(c) ==
    IF ~Authenticated(c) THEN Unauthorized
    ELSE /\ session' = [session EXCEPT ![c] = 0]
         /\ response' = Redirect("show_landing_page", <<>>)
         /\ UNCHANGED <<users, tasks, notes, transactions>>

-----------------------------------------------------------------------------
(* Dashboard.                                                              *)

\* Money is counted in thousandths of the currency unit, so that an amount
\* may be finer than the two decimals the pages show.
RECURSIVE SumAmounts(_)
SumAmounts(ids) ==
    IF ids = {} THEN 0
    ELSE LET x == CHOOSE i \in ids : TRUE
         IN  transactions[x].transaction_amount + SumAmounts(ids \ {x})

\* Mutant of TypeTotal: the rows of every user are summed.
TypeTotal_any_owner(u, ty) ==
    SumAmounts({x \in DOMAIN transactions : transactions[x].transaction_type = ty})

\* query(func.sum(transaction_amount)).filter_by(user_id=u, transaction_type=ty).scalar() or 0
TypeTotal(u, ty) ==
    SumAmounts({x \in DOMAIN transactions :
        /\ transactions[x].user_id = u
        /\ transactions[x].transaction_type = ty})

\* p / q rounded to the nearest integer, a half going to the even neighbour (q > 0).
RoundDiv(p, q) ==
    LET r == p % q
        lo == (p - r) \div q
    IN  IF 2 * r < q THEN lo
        ELSE IF 2 * r > q THEN lo + 1
        ELSE IF lo % 2 = 0 THEN lo ELSE lo + 1

\* round(x, 2) of an amount in thousandths.
Round2(x) == RoundDiv(x, 10) * 10

\* Mutant of DailyReset: the date is advanced, the minutes are kept.
DailyReset_keeps_minutes(row) ==
    IF row.focus_tracking_date # today
    THEN [row EXCEPT !.focus_tracking_date = today]
    ELSE row

\* The daily reset both show_dashboard and handle_session_complete apply to
\* the caller's row before they use focus_minutes_today.
DailyReset(row) ==
    IF row.focus_tracking_date # today
    THEN [row EXCEPT !.focus_minutes_today = 0, !.focus_tracking_date = today]
    ELSE row

\* Mutant of IncompleteTask: completed tasks count too.
IncompleteTask_any_status(u, p) ==
    \E t \in DOMAIN tasks :
        /\ tasks[t].user_id = u
        /\ tasks[t].priority_level = p

\* Task.query.filter_by(user_id=u, is_completed=False, priority_level=p).first()
IncompleteTask(u, p) ==
    \E t \in DOMAIN tasks :
        /\ tasks[t].user_id = u
        /\ ~tasks[t].is_completed
        /\ tasks[t].priority_level = p

\* The daily focus goal of show_dashboard.
DailyFocusGoal(u) ==
    IF IncompleteTask(u, "high") THEN 30
    ELSE IF IncompleteTask(u, "medium") THEN 15
    ELSE IF IncompleteTask(u, "low") THEN 10
    ELSE 0

\* sum([...]) of the five achievement flags.
UnlockedCount(row) ==
    (IF row.achievement_first_login THEN 1 ELSE 0)
    + (IF row.achievement_first_focus THEN 1 ELSE 0)
    + (IF row.achievement_first_task THEN 1 ELSE 0)
    + (IF row.achievement_first_note THEN 1 ELSE 0)
    + (IF row.achievement_email_added THEN 1 ELSE 0)

\* GET /home.  The rendered progress percentage is left out of the body.
show_dashboard(c) ==
    IF ~Authenticated(c) THEN Unauthorized
    ELSE LET u == session[c]
             row == DailyReset(users[u])
         IN  /\ users' = [users EXCEPT ![u] = row]
             /\ response' = Render("home.html",
                    [ active_tasks_count |->
                          Cardinality({t \in DOMAIN tasks :
                              tasks[t].user_id = u /\ ~tasks[t].is_completed}),
                      total_notes_count |->
                          Cardinality({n \in DOMAIN notes : notes[n].user_id = u}),
                      focus_minutes_today |-> row.focus_minutes_today,
                      daily_focus_goal |-> DailyFocusGoal(u),
                      current_balance |->
                          Round2(TypeTotal(u, "income") - TypeTotal(u, "expense")),
                      unlocked_count |-> UnlockedCount(row),
                      focus_points |-> row.total_focus_points ])
             /\ UNCHANGED <<tasks, notes, transactions, session>>

-----------------------------------------------------------------------------
(* Task routes.                                                            *)

\* POST /task/add
handle_add_task(c, priority_level) ==
    IF ~Authenticated(c) THEN Unauthorized
    ELSE LET u == session[c] IN
         /\ tasks' = Insert(tasks, NewId(tasks), NewTask(u, priority_level))
         /\ IF ~users[u].achievement_first_task
            THEN /\ users' = [users EXCEPT ![u].achievement_first_task = TRUE]
                 /\ response' = Redirect("show_tasks_page",
                        <<"Achievement unlocked: Task Starter!", "Task added!">>)
            ELSE /\ users' = users
                 /\ response' = Redirect("show_tasks_page", <<"Task added!">>)
         /\ UNCHANGED <<notes, transactions, session>>

\* Mutant of FoundTask: the owner is not checked.
FoundTask_any_owner(u, task_id) == task_id \in DOMAIN tasks

\* Task.query.filter_by(id=task_id, user_id=current_user.id).first()
FoundTask(u, task_id) == task_id \in DOMAIN tasks /\ tasks[task_id].user_id = u

\* POST /task/update
handle_update_task(c, task_id, priority_level) ==
    IF ~Authenticated(c) THEN Unauthorized
    ELSE LET u == session[c] IN
         IF FoundTask(u, task_id)
         THEN /\ tasks' = [tasks EXCEPT ![task_id].priority_level = priority_level]
              /\ response' = Redirect("show_tasks_page", <<"Task updated!">>)
              /\ UNCHANGED <<users, notes, transactions, session>>
         ELSE /\ response' = Redirect("show_tasks_page", <<>>)
              /\ UNCHANGED <<users, tasks, notes, transactions, session>>

\* Mutant of PointsEarned: an unknown priority earns nothing.
PointsEarned_no_default(priority_level) ==
    CASE priority_level = "high" -> 30
      [] priority_level = "medium" -> 20
      [] priority_level = "low" -> 10
      [] OTHER -> 0

\* {'high': 30, 'medium': 20, 'low': 10}.get(priority_level, 10)
PointsEarned(priority_level) ==
    CASE priority_level = "high" -> 30
      [] priority_level = "medium" -> 20
      [] priority_level = "low" -> 10
      [] OTHER -> 10

\* GET /task/toggle
handle_toggle_task(c, task_id) ==
    IF ~Authenticated(c) THEN Unauthorized
    ELSE LET u == session[c] IN
         IF FoundTask(u, task_id)
         THEN LET was_completed == tasks[task_id].is_completed
                  points_earned == PointsEarned(tasks[task_id].priority_level)
              IN  /\ tasks' = [tasks EXCEPT ![task_id].is_completed = ~was_completed]
                  /\ IF ~was_completed
                     THEN /\ users' = [users EXCEPT ![u].total_focus_points = @ + points_earned]
                          /\ response' = Redirect("show_tasks_page", <<"points earned!">>)
                     ELSE /\ users' = users
                          /\ response' = Redirect("show_tasks_page", <<>>)
                  /\ UNCHANGED <<notes, transactions, session>>
         ELSE /\ response' = Redirect("show_tasks_page", <<>>)
              /\ UNCHANGED <<users, tasks, notes, transactions, session>>

\* GET /task/delete
handle_delete_task(c, task_id) ==
    IF ~Authenticated(c) THEN Unauthorized
    ELSE LET u == session[c] IN
         IF FoundTask(u, task_id)
         THEN /\ tasks' = Delete(tasks, {task_id})
              /\ response' = Redirect("show_tasks_page", <<"Task deleted">>)
              /\ UNCHANGED <<users, notes, transactions, session>>
         ELSE /\ response' = Redirect("show_tasks_page", <<>>)
              /\ UNCHANGED <<users, tasks, notes, transactions, session>>

-----------------------------------------------------------------------------
(* Note routes.                                                            *)

\* Mutant of handle_add_note: the first note also earns 5 points.
handle_add_note_rewarded(c, note_content) ==
    IF ~Authenticated(c) THEN Unauthorized
    ELSE LET u == session[c] IN
         /\ notes' = Insert(notes, NewId(notes), NewNote(u, note_content))
         /\ IF ~users[u].achievement_first_note
            THEN /\ users' = [users EXCEPT ![u].achievement_first_note = TRUE,
                                          ![u].total_focus_points = @ + 5]
                 /\ response' = Redirect("show_notes_page",
                        <<"Achievement unlocked: Note Taker!", "Note saved!">>)
            ELSE /\ users' = users
                 /\ response' = Redirect("show_notes_page", <<"Note saved!">>)
         /\ UNCHANGED <<tasks, transactions, session>>

\* POST /note/add
handle_add_note(c, note_content) ==
    IF ~Authenticated(c) THEN Unauthorized
    ELSE LET u == session[c] IN
         /\ notes' = Insert(notes, NewId(notes), NewNote(u, note_content))
         /\ IF ~users[u].achievement_first_note
            THEN /\ users' = [users EXCEPT ![u].achievement_first_note = TRUE]
                 /\ response' = Redirect("show_notes_page",
                        <<"Achievement unlocked: Note Taker!", "Note saved!">>)
            ELSE /\ users' = users
                 /\ response' = Redirect("show_notes_page", <<"Note saved!">>)
         /\ UNCHANGED <<tasks, transactions, session>>

\* Note.query.filter_by(id=note_id, user_id=current_user.id).first()
FoundNote(u, note_id) == note_id \in DOMAIN notes /\ notes[note_id].user_id = u

\* POST /note/update
handle_update_note(c, note_id, note_content) ==
    IF ~Authenticated(c) THEN Unauthorized
    ELSE LET u == session[c] IN
         IF FoundNote(u, note_id)
         THEN /\ notes' = [notes EXCEPT ![note_id].note_content = note_content]
              /\ response' = Redirect("show_notes_page", <<"Note updated!">>)
              /\ UNCHANGED <<users, tasks, transactions, session>>
         ELSE /\ response' = Redirect("show_notes_page", <<>>)
              /\ UNCHANGED <<users, tasks, notes, transactions, session>>

\* GET /note/delete
handle_delete_note(c, note_id) ==
    IF ~Authenticated(c) THEN Unauthorized
    ELSE LET u == session[c] IN
         IF FoundNote(u, note_id)
         THEN /\ notes' = Delete(notes, {note_id})
              /\ response' = Redirect("show_notes_page", <<"Note deleted">>)
              /\ UNCHANGED <<users, tasks, transactions, session>>
         ELSE /\ response' = Redirect("show_notes_page", <<>>)
              /\ UNCHANGED <<users, tasks, notes, transactions, session>>

-----------------------------------------------------------------------------
(* Focus timer routes.                                                     *)

\* Mutant of EnergyAccumulated: the product is taken before the division.
EnergyAccumulated_late_division(seconds_since_last_collection, stars_earned) ==
    IntDiv(seconds_since_last_collection * stars_earned, 5)

\* int(seconds_since_last_collection / 5) * stars_earned
EnergyAccumulated(seconds_since_last_collection, stars_earned) ==
    IntDiv(seconds_since_last_collection, 5) * stars_earned

\* GET /focus
show_focus_page(c) ==
    IF ~Authenticated(c) THEN Unauthorized
    ELSE LET u == session[c]
             current_time == now
             seconds_since_last_collection ==
                 current_time - users[u].last_energy_collection_time
             energy_accumulated ==
                 EnergyAccumulated(seconds_since_last_collection, users[u].stars_earned)
             row == IF energy_accumulated > 0
                    THEN [users[u] EXCEPT
                            !.energy_bank_balance = @ + energy_accumulated,
                            !.last_energy_collection_time = current_time]
                    ELSE users[u]
         IN  /\ users' = [users EXCEPT ![u] = row]
             /\ response' = Render("focus.html",
                    [ total_focus_points |-> row.total_focus_points,
                      stars_earned |-> row.stars_earned,
                      energy_bank_balance |-> row.energy_bank_balance ])
             /\ UNCHANGED <<tasks, notes, transactions, session>>

\* dict.get(key, default) on a JSON body, a record that may lack the key.
Get(request_data, key, default) ==
    IF key \in DOMAIN request_data THEN request_data[key] ELSE default

\* Mutant of handle_session_complete: the points follow the session length.
handle_session_complete_by_length(c, request_data) ==
    IF ~Authenticated(c) THEN Unauthorized
    ELSE LET u == session[c]
             completed_minutes == Get(request_data, "minutes", 1)
             rewarded == [users[u] EXCEPT
                            !.stars_earned = @ + 1,
                            !.total_focus_points = @ + completed_minutes,
                            !.last_energy_collection_time = now]
             tracked == [DailyReset(rewarded) EXCEPT
                            !.focus_minutes_today = @ + completed_minutes]
             row == [tracked EXCEPT !.achievement_first_focus = TRUE]
         IN  /\ users' = [users EXCEPT ![u] = row]
             /\ response' = Json(
                    [ success |-> TRUE,
                      stars |-> row.stars_earned,
                      focus_today |-> row.focus_minutes_today,
                      points |-> row.total_focus_points ])
             /\ UNCHANGED <<tasks, notes, transactions, session>>

\* POST /focus/complete-session
handle_session_complete(c, request_data) ==
    IF ~Authenticated(c) THEN Unauthorized
    ELSE LET u == session[c]
             completed_minutes == Get(request_data, "minutes", 1)
             rewarded == [users[u] EXCEPT
                            !.stars_earned = @ + 1,
                            !.total_focus_points = @ + 10,
                            !.last_energy_collection_time = now]
             tracked == [DailyReset(rewarded) EXCEPT
                            !.focus_minutes_today = @ + completed_minutes]
             row == [tracked EXCEPT !.achievement_first_focus = TRUE]
         IN  /\ users' = [users EXCEPT ![u] = row]
             /\ response' = Json(
                    [ success |-> TRUE,
                      stars |-> row.stars_earned,
                      focus_today |-> row.focus_minutes_today,
                      points |-> row.total_focus_points ])
             /\ UNCHANGED <<tasks, notes, transactions, session>>

\* Mutant of handle_add_focus_points: the points are paid from the energy bank.
handle_add_focus_points_debits(c, request_data) ==
    IF ~Authenticated(c) THEN Unauthorized
    ELSE LET u == session[c]
             points_to_add == Get(request_data, "points", 0)
             added == [users[u] EXCEPT
                         !.total_focus_points = @ + points_to_add,
                         !.energy_bank_balance = @ - points_to_add]
             row == IF ~added.achievement_first_focus /\ points_to_add > 0
                    THEN [added EXCEPT !.achievement_first_focus = TRUE]
                    ELSE added
         IN  /\ users' = [users EXCEPT ![u] = row]
             /\ response' = Json(
                    [ success |-> TRUE,
                      total_points |-> row.total_focus_points ])
             /\ UNCHANGED <<tasks, notes, transactions, session>>

\* POST /focus/add-points
handle_add_focus_points(c, request_data) ==
    IF ~Authenticated(c) THEN Unauthorized
    ELSE LET u == session[c]
             points_to_add == Get(request_data, "points", 0)
             added == [users[u] EXCEPT !.total_focus_points = @ + points_to_add]
             row == IF ~added.achievement_first_focus /\ points_to_add > 0
                    THEN [added EXCEPT !.achievement_first_focus = TRUE]
                    ELSE added
         IN  /\ users' = [users EXCEPT ![u] = row]
             /\ response' = Json(
                    [ success |-> TRUE,
                      total_points |-> row.total_focus_points ])
             /\ UNCHANGED <<tasks, notes, transactions, session>>

-----------------------------------------------------------------------------
(* Budget routes.                                                          *)

\* estimated_months_to_goal of show_budget_page, in tenths of a month: <<>> is
\* None.  The monthly rate is current_balance / 12, at least 1 currency unit.
EstimatedMonths(savings_goal_target, current_balance) ==
    IF savings_goal_target # <<>> /\ savings_goal_target[1] # 0 /\ current_balance > 0
    THEN LET target == savings_goal_target[1]
             remaining_amount == target - current_balance
         IN  IF current_balance >= target THEN <<0>>
             ELSE IF current_balance >= 12000
             THEN <<RoundDiv(120 * remaining_amount, current_balance)>>
             ELSE <<RoundDiv(remaining_amount, 100)>>
    ELSE <<>>

\* GET /budget.  The weekly and monthly expenses and the transaction list
\* are left out of the body.
show_budget_page(c) ==
    IF ~Authenticated(c) THEN Unauthorized
    ELSE LET u == session[c]
             total_income == TypeTotal(u, "income")
             total_expenses == TypeTotal(u, "expense")
             current_balance == total_income - total_expenses
         IN  /\ response' = Render("budget.html",
                    [ total_income |-> Round2(total_income),
                      total_expenses |-> Round2(total_expenses),
                      current_balance |-> Round2(current_balance),
                      estimated_months_to_goal |->
                          EstimatedMonths(users[u].savings_goal_target, current_balance) ])
             /\ UNCHANGED <<users, tasks, notes, transactions, session>>

\* POST /transaction/add
handle_add_transaction(c, transaction_type, transaction_amount) ==
    IF ~Authenticated(c) THEN Unauthorized
    ELSE LET u == session[c] IN
         /\ transactions' = Insert(transactions, NewId(transactions),
                [ user_id |-> u,
                  transaction_type |-> transaction_type,
                  transaction_amount |-> transaction_amount ])
         /\ response' = Redirect("show_budget_page", <<"Transaction added!">>)
         /\ UNCHANGED <<users, tasks, notes, session>>

\* POST /goal/set; a set target is <<target>>, an unset one (NULL) is <<>>.
handle_set_goal(c, target) ==
    IF ~Authenticated(c) THEN Unauthorized
    ELSE LET u == session[c] IN
         /\ users' = [users EXCEPT ![u].savings_goal_target = <<target>>]
         /\ response' = Redirect("show_budget_page", <<"Goal saved!">>)
         /\ UNCHANGED <<tasks, notes, transactions, session>>

-----------------------------------------------------------------------------
(* Settings routes.                                                        *)

\* Mutant of handle_update_profile: removing the email takes the achievement back.
handle_update_profile_resets(c, email_in) ==
    IF ~Authenticated(c) THEN Unauthorized
    ELSE LET u == session[c]
             new_email == StripLower(email_in)
             current_email == IF users[u].email = None THEN "" ELSE users[u].email
         IN  IF new_email # ""
             THEN IF new_email # current_email
                  THEN IF \E i \in DOMAIN users : users[i].email = new_email
                       THEN /\ response' = Redirect("show_settings_page",
                                               <<"Email already in use">>)
                            /\ UNCHANGED <<users, tasks, notes, transactions, session>>
                       ELSE /\ users' = [users EXCEPT
                                           ![u].email = new_email,
                                           ![u].achievement_email_added = TRUE]
                            /\ response' = Redirect("show_settings_page",
                                               <<"Profile updated!">>)
                            /\ UNCHANGED <<tasks, notes, transactions, session>>
                  ELSE /\ response' = Redirect("show_settings_page", <<"Profile updated!">>)
                       /\ UNCHANGED <<users, tasks, notes, transactions, session>>
             ELSE /\ users' = [users EXCEPT
                                 ![u].email = None,
                                 ![u].achievement_email_added = FALSE]
                  /\ response' = Redirect("show_settings_page", <<"Profile updated!">>)
                  /\ UNCHANGED <<tasks, notes, transactions, session>>

\* POST /settings/profile
handle_update_profile(c, email_in) ==
    IF ~Authenticated(c) THEN Unauthorized
    ELSE LET u == session[c]
             new_email == StripLower(email_in)
             current_email == IF users[u].email = None THEN "" ELSE users[u].email
         IN  IF new_email # ""
             THEN IF new_email # current_email
                  THEN IF \E i \in DOMAIN users : users[i].email = new_email
                       THEN /\ response' = Redirect("show_settings_page",
                                               <<"Email already in use">>)
                            /\ UNCHANGED <<users, tasks, notes, transactions, session>>
                       ELSE /\ users' = [users EXCEPT
                                           ![u].email = new_email,
                                           ![u].achievement_email_added = TRUE]
                            /\ response' = Redirect("show_settings_page",
                                               <<"Profile updated!">>)
                            /\ UNCHANGED <<tasks, notes, transactions, session>>
                  ELSE /\ response' = Redirect("show_settings_page", <<"Profile updated!">>)
                       /\ UNCHANGED <<users, tasks, notes, transactions, session>>
             ELSE /\ users' = [users EXCEPT ![u].email = None]
                  /\ response' = Redirect("show_settings_page", <<"Profile updated!">>)
                  /\ UNCHANGED <<tasks, notes, transactions, session>>

\* Mutant of handle_change_password: the confirmation is not compared.
handle_change_password_unconfirmed(c, current_password, new_password, confirm_new_password) ==
    IF ~Authenticated(c) THEN Unauthorized
    ELSE LET u == session[c] IN
         IF ~check_password_hash(users[u].password_hash, current_password)
         THEN /\ response' = Redirect("show_settings_page",
                                 <<"Current password is incorrect">>)
              /\ UNCHANGED <<users, tasks, notes, transactions, session>>
         ELSE /\ users' = [users EXCEPT
                             ![u].password_hash = generate_password_hash(new_password)]
              /\ response' = Redirect("show_settings_page", <<"Password changed!">>)
              /\ UNCHANGED <<tasks, notes, transactions, session>>

\* POST /settings/password
handle_change_password(c, current_password, new_password, confirm_new_password) ==
    IF ~Authenticated(c) THEN Unauthorized
    ELSE LET u == session[c] IN
         IF ~check_password_hash(users[u].password_hash, current_password)
         THEN /\ response' = Redirect("show_settings_page",
                                 <<"Current password is incorrect">>)
              /\ UNCHANGED <<users, tasks, notes, transactions, session>>
         ELSE IF new_password # confirm_new_password
         THEN /\ response' = Redirect("show_settings_page",
                                 <<"New passwords do not match">>)
              /\ UNCHANGED <<users, tasks, notes, transactions, session>>
         ELSE /\ users' = [users EXCEPT
                             ![u].password_hash = generate_password_hash(new_password)]
              /\ response' = Redirect("show_settings_page", <<"Password changed!">>)
              /\ UNCHANGED <<tasks, notes, transactions, session>>

\* POST /settings/delete
handle_delete_account(c, password) ==
    IF ~Authenticated(c) THEN Unauthorized
    ELSE LET u == session[c] IN
         IF ~check_password_hash(users[u].password_hash, password)
         THEN /\ response' = Redirect("show_settings_page", <<"Incorrect password">>)
              /\ UNCHANGED <<users, tasks, notes, transactions, session>>
         ELSE /\ tasks' = Delete(tasks, {t \in DOMAIN tasks : tasks[t].user_id = u})
              /\ notes' = Delete(notes, {n \in DOMAIN notes : notes[n].user_id = u})
              /\ transactions' = Delete(transactions,
                    {x \in DOMAIN transactions : transactions[x].user_id = u})
              /\ users' = Delete(users, {u})
              /\ session' = [session EXCEPT ![c] = 0]
              /\ response' = Redirect("show_landing_page", <<"Account deleted">>)

-----------------------------------------------------------------------------
(* The environment: the clocks, and the requests the clients send.         *)

\* Wall-clock time passes.
Tick(seconds) ==
    /\ now' = now + seconds
    /\ UNCHANGED <<users, tasks, notes, transactions, session, today, request, response, ntoggles, threads>>

\* The local date changes.
NextDay ==
    /\ today' = today + 1
    /\ UNCHANGED <<users, tasks, notes, transactions, session, now, request, response, ntoggles, threads>>

\* A request is served: the clocks stand still while a handler runs.
Served == UNCHANGED <<now, today, request, ntoggles, threads>>

\* The same, with the request of client c logged.
Logged(route, c, arg) ==
    /\ request' = [route |-> route, user |-> IF Authenticated(c) THEN session[c] ELSE 0, arg |-> arg]
    /\ UNCHANGED <<now, today, ntoggles, threads>>

PriorityInputs == {"high", "medium", "low", "urgent"}
TaskIdInputs == 1..(MaxTasks + 1)

\* The ids a table of the model may use.
IdsWithin(table, max) == DOMAIN table \subseteq 1..max

\* Every user's total_focus_points lies in lo..hi.
PointsWithin(lo, hi) ==
    \A u \in DOMAIN users : users[u].total_focus_points \in lo..hi

-----------------------------------------------------------------------------
(* SpecTasks: two users, their tasks and the dashboard.                    *)

TasksBounds ==
    /\ IdsWithin(users, MaxUsers)
    /\ IdsWithin(tasks, MaxTasks)
    /\ PointsWithin(0, MaxPoints)

NextTasks ==
    \/ \E c \in Clients : handle_registration(c, " bea ", "", "abc", "abc") /\ Served /\ TasksBounds'
    \/ \E c \in Clients : handle_login(c, "Artur", "123") /\ Served /\ TasksBounds'
    \/ \E c \in Clients : handle_login(c, "bea", "abc") /\ Served /\ TasksBounds'
    \/ \E c \in Clients : show_dashboard(c) /\ Served /\ TasksBounds'
    \/ \E c \in Clients, p \in PriorityInputs :
         handle_add_task(c, p) /\ Served /\ TasksBounds'
    \/ \E c \in Clients, t \in TaskIdInputs, p \in PriorityInputs :
         handle_update_task(c, t, p) /\ Served /\ TasksBounds'
    \/ \E c \in Clients, t \in TaskIdInputs :
         handle_toggle_task(c, t) /\ Served /\ TasksBounds'
    \/ \E c \in Clients, t \in TaskIdInputs :
         handle_delete_task(c, t) /\ Served /\ TasksBounds'

SpecTasks == Init /\ [][NextTasks]_vars

-----------------------------------------------------------------------------
(* SpecToggle: one task of the demo user, toggled again and again.  The    *)
(* initial states are those after artur logs in and adds a task of any     *)
(* priority, and bea registers.                                            *)

InitToggle ==
    \E p \in PriorityInputs :
        /\ users = Insert(
                [create_demo_account EXCEPT ![1].achievement_first_task = TRUE],
                2, NewUser("bea", None, generate_password_hash("abc"), FALSE, FALSE, 0))
        /\ tasks = Insert(<<>>, 1, NewTask(1, p))
        /\ notes = <<>>
        /\ transactions = <<>>
        /\ session = [c \in Clients |-> 1]
        /\ now = 0
        /\ today = 1
        /\ request = [route |-> "", user |-> 0, arg |-> 0]
        /\ response = Redirect("show_landing_page", <<"Account created!">>)
        /\ ntoggles = 0
        /\ threads = [t \in Threads |-> IdleThread]

NextToggle ==
    \E c \in Clients :
        /\ ntoggles < MaxToggles
        /\ handle_toggle_task(c, 1)
        /\ ntoggles' = ntoggles + 1
        /\ UNCHANGED <<now, today, request, threads>>

SpecToggle == InitToggle /\ [][NextToggle]_vars

-----------------------------------------------------------------------------
(* SpecEnergy: the demo user's focus farm while time passes.               *)

\* Every user's counters and clocks lie within the bounds.
FocusWithin ==
    /\ now <= MaxTime
    /\ today <= MaxDay
    /\ \A u \in DOMAIN users :
        /\ users[u].stars_earned <= MaxStars
        /\ users[u].energy_bank_balance <= MaxEnergy
        /\ users[u].focus_minutes_today \in (0 - MaxMinutes)..MaxMinutes

\* JSON bodies: {} and {"points": p}, {} and {"minutes": m}.
PointInputs == {<<>>} \cup {[points |-> p] : p \in {-5, 5}}
MinuteInputs == {<<>>} \cup {[minutes |-> m] : m \in {-5, 25}}

NextEnergy ==
    \/ \E c \in Clients : handle_login(c, "artur", "123") /\ Served /\ FocusWithin'
    \/ Tick(1) /\ FocusWithin'
    \/ \E c \in Clients : show_focus_page(c) /\ Served /\ FocusWithin'
    \/ \E c \in Clients : handle_session_complete(c, <<>>) /\ Served /\ FocusWithin'
    \/ \E c \in Clients, p \in PointInputs :
         handle_add_focus_points(c, p) /\ Served /\ FocusWithin' /\ PointsWithin(0 - MaxPoints, MaxPoints)'

SpecEnergy == Init /\ [][NextEnergy]_vars

-----------------------------------------------------------------------------
(* SpecFocus: the demo user's focus sessions and dashboard over the days.  *)

NextFocus ==
    \/ \E c \in Clients : handle_login(c, "artur", "123") /\ Served /\ FocusWithin'
    \/ Tick(5) /\ FocusWithin'
    \/ NextDay /\ FocusWithin'
    \/ \E c \in Clients : show_dashboard(c) /\ Served /\ FocusWithin'
    \/ \E c \in Clients : show_focus_page(c) /\ Served /\ FocusWithin'
    \/ \E c \in Clients, m \in MinuteInputs :
         handle_session_complete(c, m) /\ Served /\ FocusWithin'

SpecFocus == Init /\ [][NextFocus]_vars

-----------------------------------------------------------------------------
(* Spec: every route, on two accounts.                                     *)

\* A user with ledger activity: a counter, date or goal off its default, one
\* of the task, note and focus achievements, or a row owned.
Active(u) ==
    \/ users[u].total_focus_points # 0
    \/ users[u].stars_earned # 0
    \/ users[u].energy_bank_balance # 0
    \/ users[u].focus_minutes_today # 0
    \/ users[u].focus_tracking_date # NoDate
    \/ users[u].savings_goal_target # <<>>
    \/ users[u].achievement_first_focus
    \/ users[u].achievement_first_task
    \/ users[u].achievement_first_note
    \/ \E t \in DOMAIN tasks : tasks[t].user_id = u
    \/ \E n \in DOMAIN notes : notes[n].user_id = u
    \/ \E x \in DOMAIN transactions : transactions[x].user_id = u

SpecBounds ==
    /\ IdsWithin(users, MaxUsers)
    /\ IdsWithin(tasks, MaxRows)
    /\ IdsWithin(notes, MaxRows)
    /\ IdsWithin(transactions, MaxRows)
    /\ Cardinality(DOMAIN tasks) + Cardinality(DOMAIN notes)
         + Cardinality(DOMAIN transactions) <= MaxRows
    /\ PointsWithin(0, MaxAward)
    /\ \A u \in DOMAIN users : users[u].stars_earned <= MaxRows
    /\ Cardinality({u \in DOMAIN users : Active(u)}) <= MaxActive

Next ==
    \/ \E c \in Clients :
         handle_registration(c, "Bea", "", "abc", "abc") /\ Served /\ SpecBounds'
    \/ \E c \in Clients : handle_login(c, "artur", "123") /\ Served /\ SpecBounds'
    \/ \E c \in Clients : handle_login(c, "bea", "abc") /\ Served /\ SpecBounds'
    \/ \E c \in Clients : handle_logout(c) /\ Served /\ SpecBounds'
    \/ \E c \in Clients : show_dashboard(c) /\ Served /\ SpecBounds'
    \/ \E c \in Clients : handle_add_task(c, "low") /\ Served /\ SpecBounds'
    \/ \E c \in Clients : handle_update_task(c, 1, "low") /\ Served /\ SpecBounds'
    \/ \E c \in Clients : handle_toggle_task(c, 1) /\ Served /\ SpecBounds'
    \/ \E c \in Clients : handle_delete_task(c, 1) /\ Served /\ SpecBounds'
    \/ \E c \in Clients : handle_add_note(c, "draft") /\ Served /\ SpecBounds'
    \/ \E c \in Clients : handle_update_note(c, 1, "final") /\ Served /\ SpecBounds'
    \/ \E c \in Clients : handle_delete_note(c, 1) /\ Served /\ SpecBounds'
    \/ \E c \in Clients : show_focus_page(c) /\ Served /\ SpecBounds'
    \/ \E c \in Clients : handle_session_complete(c, <<>>) /\ Served /\ SpecBounds'
    \/ \E c \in Clients, p \in {0 - MaxAward, MaxAward} :
         handle_add_focus_points(c, [points |-> p]) /\ Served /\ SpecBounds'
    \/ \E c \in Clients : handle_add_transaction(c, "income", 10) /\ Served /\ SpecBounds'
    \/ \E c \in Clients : handle_set_goal(c, 50) /\ Served /\ SpecBounds'
    \/ \E c \in Clients, e \in {"", "Bea@X.org"} :
         handle_update_profile(c, e) /\ Served /\ SpecBounds'
    \/ \E c \in Clients :
         handle_change_password(c, "123", "123", "123") /\ Served /\ SpecBounds'
    \/ \E c \in Clients, p \in {"123", "abc"} :
         handle_delete_account(c, p) /\ Served /\ SpecBounds'

Spec == Init /\ [][Next]_vars

-----------------------------------------------------------------------------
(* SpecOwned: two users, one task and one note, every request logged.      *)

OwnedBounds ==
    /\ IdsWithin(users, MaxUsers)
    /\ IdsWithin(tasks, MaxRows)
    /\ IdsWithin(notes, MaxRows)
    /\ PointsWithin(0, MaxPoints)

NextOwned ==
    \/ \E c \in Clients :
         handle_registration(c, "bea", "", "abc", "abc") /\ Logged("/register", c, 0) /\ OwnedBounds'
    \/ \E c \in Clients : handle_login(c, "artur", "123") /\ Logged("/login", c, 0) /\ OwnedBounds'
    \/ \E c \in Clients : handle_login(c, "bea", "abc") /\ Logged("/login", c, 0) /\ OwnedBounds'
    \/ \E c \in Clients, p \in {"high", "low"} :
         handle_add_task(c, p) /\ Logged("/task/add", c, 0) /\ OwnedBounds'
    \/ \E c \in Clients, t \in 1..(MaxRows + 1) :
         handle_update_task(c, t, "medium") /\ Logged("/task/update", c, t) /\ OwnedBounds'
    \/ \E c \in Clients, t \in 1..(MaxRows + 1) :
         handle_toggle_task(c, t) /\ Logged("/task/toggle", c, t) /\ OwnedBounds'
    \/ \E c \in Clients, t \in 1..(MaxRows + 1) :
         handle_delete_task(c, t) /\ Logged("/task/delete", c, t) /\ OwnedBounds'
    \/ \E c \in Clients :
         handle_add_note(c, "draft") /\ Logged("/note/add", c, 0) /\ OwnedBounds'
    \/ \E c \in Clients, n \in 1..(MaxRows + 1) :
         handle_update_note(c, n, "final") /\ Logged("/note/update", c, n) /\ OwnedBounds'
    \/ \E c \in Clients, n \in 1..(MaxRows + 1) :
         handle_delete_note(c, n) /\ Logged("/note/delete", c, n) /\ OwnedBounds'

SpecOwned == Init /\ [][NextOwned]_vars

-----------------------------------------------------------------------------
(* SpecAccounts: registration, login, profile, password, account deletion. *)

NextAccounts ==
    \/ \E c \in Clients, n \in {"Bea", "Artur", "cy"}, e \in {"", "Bea@X.org", "artur@demo.com"},
          cp \in {"abc", "abd"} :
         handle_registration(c, n, e, "abc", cp) /\ Served /\ IdsWithin(users, MaxUsers)'
    \/ \E c \in Clients, n \in {"Artur", "bea", "Bea@X.org", "cy"}, p \in {"123", "abc"} :
         handle_login(c, n, p) /\ Served
    \/ \E c \in Clients : handle_logout(c) /\ Served
    \/ \E c \in Clients, e \in {"", "Bea@X.org", "Artur@Demo.com"} :
         handle_update_profile(c, e) /\ Served
    \/ \E c \in Clients, p \in {"123", "abc"}, q \in {"123", "abc"}, r \in {"123", "abc"} :
         handle_change_password(c, p, q, r) /\ Served
    \/ \E c \in Clients, p \in {"123", "abc"} :
         handle_delete_account(c, p) /\ Served

SpecAccounts == Init /\ [][NextAccounts]_vars

-----------------------------------------------------------------------------
(* SpecBudget: two users and their transaction logs.                        *)

\* Type and amount of a transaction: 100, 30 and 20 units, 30 units of a
\* type that is neither income nor expense, and 0.004 unit.
TransactionInputs ==
    { <<"income", 100000>>, <<"expense", 30000>>, <<"expense", 20000>>,
      <<"refund", 30000>>, <<"income", 4>> }

NextBudget ==
    \/ \E c \in Clients :
         handle_registration(c, "bea", "", "abc", "abc") /\ Served /\ IdsWithin(users, MaxUsers)'
    \/ \E c \in Clients : handle_login(c, "artur", "123") /\ Served
    \/ \E c \in Clients : handle_login(c, "bea", "abc") /\ Served
    \/ \E c \in Clients, x \in TransactionInputs :
         handle_add_transaction(c, x[1], x[2]) /\ Served /\ IdsWithin(transactions, MaxTransactions)'
    \/ \E c \in Clients : show_dashboard(c) /\ Served
    \/ \E c \in Clients : show_budget_page(c) /\ Served

SpecBudget == Init /\ [][NextBudget]_vars

-----------------------------------------------------------------------------
(* SpecGoal: the demo user's savings goal and transaction log.              *)

\* Goal targets: 600, 40 and 0 units.
TargetInputs == {600000, 40000, 0}

NextGoal ==
    \/ \E c \in Clients : handle_login(c, "artur", "123") /\ Served
    \/ \E c \in Clients, x \in TransactionInputs :
         handle_add_transaction(c, x[1], x[2]) /\ Served /\ IdsWithin(transactions, MaxTransactions)'
    \/ \E c \in Clients, t \in TargetInputs : handle_set_goal(c, t) /\ Served
    \/ \E c \in Clients : show_budget_page(c) /\ Served

SpecGoal == Init /\ [][NextGoal]_vars

-----------------------------------------------------------------------------
(* SpecRace: the server threads.  A request is served by one thread with   *)
(* its own database session: the thread loads the caller's row, runs its   *)
(* queries, changes the loaded objects and commits the changed columns.    *)
(* Other threads' steps may fall between these steps.                      *)

\* A thread that is between its first read and its commit.
InProgress(t) == threads[t].pc \in {"loaded", "found"}

\* load_user_by_id for a request of kind op from client c: thread t reads the
\* caller's row.  Threads serving at the same time are marked overlapped.
load_user_by_id(t, c, op) ==
    /\ threads[t].pc = "idle"
    /\ Authenticated(c)
    /\ threads' = [x \in Threads |->
            IF x = t
            THEN [ IdleThread EXCEPT
                     !.pc = "loaded", !.op = op, !.user = session[c],
                     !.current_user = users[session[c]],
                     !.overlapped = \E y \in Threads \ {t} : InProgress(y) ]
            ELSE IF InProgress(x) THEN [threads[x] EXCEPT !.overlapped = TRUE]
            ELSE threads[x]]
    /\ UNCHANGED <<users, tasks, notes, transactions, session, now, today, request,
                   response, ntoggles>>

\* GET /task/toggle, the query: found_task is <<>> (None) or <<id, row>>.
handle_toggle_task_query(t, task_id) ==
    /\ threads[t].pc = "loaded"
    /\ threads[t].op = "toggle"
    /\ threads' = [threads EXCEPT
            ![t].pc = "found",
            ![t].found_task = IF FoundTask(threads[t].user, task_id)
                              THEN <<task_id, tasks[task_id]>>
                              ELSE <<>>]
    /\ UNCHANGED <<users, tasks, notes, transactions, session, now, today, request,
                   response, ntoggles>>

\* Mutant of handle_toggle_task_commit: the award is added to the stored total.
handle_toggle_task_commit_in_place(t) ==
    /\ threads[t].pc = "found"
    /\ threads[t].op = "toggle"
    /\ LET u == threads[t].user
           found_task == threads[t].found_task
       IN  IF found_task # <<>>
           THEN LET task_id == found_task[1]
                    was_completed == found_task[2].is_completed
                    points_earned == PointsEarned(found_task[2].priority_level)
                IN  /\ tasks' = [tasks EXCEPT ![task_id].is_completed = ~was_completed]
                    /\ IF ~was_completed
                       THEN /\ users' = [users EXCEPT ![u].total_focus_points =
                                            @ + points_earned]
                            /\ threads' = [threads EXCEPT ![t].pc = "done",
                                                          ![t].award = points_earned]
                            /\ response' = Redirect("show_tasks_page", <<"points earned!">>)
                       ELSE /\ users' = users
                            /\ threads' = [threads EXCEPT ![t].pc = "done"]
                            /\ response' = Redirect("show_tasks_page", <<>>)
           ELSE /\ threads' = [threads EXCEPT ![t].pc = "done"]
                /\ response' = Redirect("show_tasks_page", <<>>)
                /\ UNCHANGED <<users, tasks>>
    /\ UNCHANGED <<notes, transactions, session, now, today, request, ntoggles>>

\* GET /task/toggle, the changes and the commit: is_completed of the task and
\* total_focus_points of the caller are written from the objects the thread
\* loaded.
handle_toggle_task_commit(t) ==
    /\ threads[t].pc = "found"
    /\ threads[t].op = "toggle"
    /\ LET u == threads[t].user
           found_task == threads[t].found_task
       IN  IF found_task # <<>>
           THEN LET task_id == found_task[1]
                    was_completed == found_task[2].is_completed
                    points_earned == PointsEarned(found_task[2].priority_level)
                IN  /\ tasks' = [tasks EXCEPT ![task_id].is_completed = ~was_completed]
                    /\ IF ~was_completed
                       THEN /\ users' = [users EXCEPT ![u].total_focus_points =
                                            threads[t].current_user.total_focus_points
                                              + points_earned]
                            /\ threads' = [threads EXCEPT ![t].pc = "done",
                                                          ![t].award = points_earned]
                            /\ response' = Redirect("show_tasks_page", <<"points earned!">>)
                       ELSE /\ users' = users
                            /\ threads' = [threads EXCEPT ![t].pc = "done"]
                            /\ response' = Redirect("show_tasks_page", <<>>)
           ELSE /\ threads' = [threads EXCEPT ![t].pc = "done"]
                /\ response' = Redirect("show_tasks_page", <<>>)
                /\ UNCHANGED <<users, tasks>>
    /\ UNCHANGED <<notes, transactions, session, now, today, request, ntoggles>>

\* POST /focus/complete-session, the changes and the commit: the columns are
\* written from the loaded row; the response reads the row back.
handle_session_complete_commit(t, request_data) ==
    /\ threads[t].pc = "loaded"
    /\ threads[t].op = "session"
    /\ LET u == threads[t].user
           current_user == threads[t].current_user
           completed_minutes == Get(request_data, "minutes", 1)
       IN  /\ users' = [users EXCEPT
                  ![u].stars_earned = current_user.stars_earned + 1,
                  ![u].total_focus_points = current_user.total_focus_points + 10,
                  ![u].last_energy_collection_time = now,
                  ![u].focus_minutes_today =
                      DailyReset(current_user).focus_minutes_today + completed_minutes,
                  ![u].focus_tracking_date = today,
                  ![u].achievement_first_focus = TRUE]
           /\ response' = Json(
                  [ success |-> TRUE,
                    stars |-> users'[u].stars_earned,
                    focus_today |-> users'[u].focus_minutes_today,
                    points |-> users'[u].total_focus_points ])
           /\ threads' = [threads EXCEPT ![t].pc = "done", ![t].award = 10]
    /\ UNCHANGED <<tasks, notes, transactions, session, now, today, request, ntoggles>>

\* The state after artur has logged in and added a high and a low task, and
\* bea has registered, logged in and added a medium task.
InitRace ==
    /\ users = Insert(
            [create_demo_account EXCEPT ![1].achievement_first_task = TRUE],
            2, [NewUser("bea", None, generate_password_hash("abc"), TRUE, FALSE, 0)
                  EXCEPT !.achievement_first_task = TRUE])
    /\ tasks = <<NewTask(1, "high"), NewTask(1, "low"), NewTask(2, "medium")>>
    /\ notes = <<>>
    /\ transactions = <<>>
    /\ session = [c \in Clients |-> 2]
    /\ now = 0
    /\ today = 1
    /\ request = [route |-> "", user |-> 0, arg |-> 0]
    /\ response = Redirect("show_tasks_page",
                      <<"Achievement unlocked: Task Starter!", "Task added!">>)
    /\ ntoggles = 0
    /\ threads = [t \in Threads |-> IdleThread]

NextRace ==
    \/ \E c \in Clients : handle_login(c, "artur", "123") /\ Served
    \/ \E c \in Clients : handle_login(c, "bea", "abc") /\ Served
    \/ \E t \in Threads, c \in Clients, op \in {"toggle", "session"} : load_user_by_id(t, c, op)
    \/ \E t \in Threads, task_id \in DOMAIN tasks : handle_toggle_task_query(t, task_id)
    \/ \E t \in Threads : handle_toggle_task_commit(t)
    \/ \E t \in Threads : handle_session_complete_commit(t, <<>>)

SpecRace == InitRace /\ [][NextRace]_vars

-----------------------------------------------------------------------------
(* SpecDeletion: task creation on the server threads while accounts are    *)
(* registered and deleted.                                                 *)

\* POST /task/add, the changes and the commit.  The new task carries the id
\* of the row the thread loaded; SQLite is not told to enforce foreign keys,
\* so the INSERT does not look at the user table.  The UPDATE of
\* achievement_first_task is only issued when the loaded flag was false, and
\* on a row that is gone it fails and the transaction is rolled back.
handle_add_task_commit(t, priority_level) ==
    /\ threads[t].pc = "loaded"
    /\ threads[t].op = "add_task"
    /\ LET u == threads[t].user
           current_user == threads[t].current_user
       IN  IF ~current_user.achievement_first_task
           THEN IF u \in DOMAIN users
                THEN /\ tasks' = Insert(tasks, NewId(tasks), NewTask(u, priority_level))
                     /\ users' = [users EXCEPT ![u].achievement_first_task = TRUE]
                     /\ response' = Redirect("show_tasks_page",
                            <<"Achievement unlocked: Task Starter!", "Task added!">>)
                ELSE /\ response' = [kind |-> "error", to |-> "", flash |-> <<>>]
                     /\ UNCHANGED <<users, tasks>>
           ELSE /\ tasks' = Insert(tasks, NewId(tasks), NewTask(u, priority_level))
                /\ users' = users
                /\ response' = Redirect("show_tasks_page", <<"Task added!">>)
    /\ threads' = [threads EXCEPT ![t].pc = "done"]
    /\ UNCHANGED <<notes, transactions, session, now, today, request, ntoggles>>

DeletionBounds ==
    /\ IdsWithin(users, MaxUsers)
    /\ IdsWithin(tasks, MaxTasks)

NextDeletion ==
    \/ \E c \in Clients :
         handle_registration(c, "bea", "", "abc", "abc") /\ Served /\ DeletionBounds'
    \/ \E c \in Clients : handle_login(c, "artur", "123") /\ Served
    \/ \E c \in Clients : handle_login(c, "bea", "abc") /\ Served
    \/ \E t \in Threads, c \in Clients : load_user_by_id(t, c, "add_task")
    \/ \E t \in Threads, p \in {"high", "low"} :
         handle_add_task_commit(t, p) /\ DeletionBounds'
    \/ \E c \in Clients, p \in {"123", "abc"} : handle_delete_account(c, p) /\ Served

SpecDeletion == Init /\ [][NextDeletion]_vars

-----------------------------------------------------------------------------
(* The claims.                                                             *)

\* The users a step keeps: in the table before and after it.
Kept == DOMAIN users \cap DOMAIN users'

\* C1: once one of the five achievement flags of a user is true, no step
\* makes it false while the account exists (Spec: every route).
C1_FlagsStayTrue ==
    [][\A u \in Kept :
        /\ users[u].achievement_first_login => users'[u].achievement_first_login
        /\ users[u].achievement_first_focus => users'[u].achievement_first_focus
        /\ users[u].achievement_first_task => users'[u].achievement_first_task
        /\ users[u].achievement_first_note => users'[u].achievement_first_note
        /\ users[u].achievement_email_added => users'[u].achievement_email_added]_vars

\* C1 witness: a user holds all five flags although the email was cleared,
\* no task and no note is left, and the points are back at 0.
C1_Witness ==
    \E u \in DOMAIN users :
        /\ users[u].achievement_first_login
        /\ users[u].achievement_first_focus
        /\ users[u].achievement_first_task
        /\ users[u].achievement_first_note
        /\ users[u].achievement_email_added
        /\ users[u].email = None
        /\ users[u].total_focus_points = 0
        /\ \A t \in DOMAIN tasks : tasks[t].user_id # u
        /\ \A n \in DOMAIN notes : notes[n].user_id # u
        /\ \A c \in Clients : session[c] # u

\* C2: no step decreases total_focus_points, stars_earned or
\* energy_bank_balance of a user whose account it keeps (SpecEnergy).
C2_CountersNeverDecrease ==
    [][\A u \in Kept :
        /\ users'[u].total_focus_points >= users[u].total_focus_points
        /\ users'[u].stars_earned >= users[u].stars_earned
        /\ users'[u].energy_bank_balance >= users[u].energy_bank_balance]_vars

\* C3: after n toggles of an incomplete task the task is complete exactly
\* when n is odd and its owner has gained ceil(n/2) awards of 30 (high),
\* 20 (medium), 10 (low) or 10 (any other priority); nobody else gains
\* anything (SpecToggle).
C3_ToggleAwards ==
    LET p == tasks[1].priority_level
        award == IF p = "high" THEN 30 ELSE IF p = "medium" THEN 20 ELSE 10
    IN  /\ tasks[1].is_completed = (ntoggles % 2 = 1)
        /\ users[1].total_focus_points = ((ntoggles + 1) \div 2) * award
        /\ users[2].total_focus_points = 0

\* C3 witness: a high-priority task toggled complete, incomplete, complete
\* has earned 60 points.
C3_Witness ==
    /\ ntoggles = 3
    /\ tasks[1].priority_level = "high"
    /\ tasks[1].is_completed
    /\ users[1].total_focus_points = 60

\* The minutes a session-completion body reports, 1 when it reports none.
ReportedMinutes(d) == IF DOMAIN d = {} THEN 1 ELSE d.minutes

\* C4: a dashboard view and a session completion first reset
\* focus_minutes_today to 0 when focus_tracking_date is not today, and leave
\* focus_tracking_date at today; the dashboard shows the minutes after the
\* reset, a session adds its minutes to them (SpecFocus).
C4_DailyReset ==
    [][\A c \in Clients : Authenticated(c) =>
        LET u == session[c]
            base == IF users[u].focus_tracking_date = today
                    THEN users[u].focus_minutes_today ELSE 0
        IN  /\ show_dashboard(c) =>
                /\ users'[u].focus_tracking_date = today
                /\ users'[u].focus_minutes_today = base
                /\ response'.body.focus_minutes_today = base
            /\ \A d \in MinuteInputs : handle_session_complete(c, d) =>
                /\ users'[u].focus_tracking_date = today
                /\ users'[u].focus_minutes_today = base + ReportedMinutes(d)]_vars

\* C4 witness: on day 2 the dashboard shows 0 minutes to a user who has
\* completed a session (on day 1).
C4_Witness ==
    /\ today = 2
    /\ response.to = "home.html"
    /\ response.body.focus_minutes_today = 0
    /\ \E c \in Clients :
        /\ Authenticated(c)
        /\ users[session[c]].stars_earned >= 1
        /\ users[session[c]].focus_tracking_date = 2

\* C5: a session completion adds 1 star and 10 points, sets the energy
\* anchor to now, sets achievement_first_focus, leaves the energy balance
\* alone and returns the stored stars, minutes and points (SpecFocus).
C5_SessionComplete ==
    [][\A c \in Clients : Authenticated(c) =>
        LET u == session[c] IN
        \A d \in MinuteInputs : handle_session_complete(c, d) =>
            /\ users'[u].stars_earned = users[u].stars_earned + 1
            /\ users'[u].total_focus_points = users[u].total_focus_points + 10
            /\ users'[u].last_energy_collection_time = now
            /\ users'[u].achievement_first_focus
            /\ users'[u].energy_bank_balance = users[u].energy_bank_balance
            /\ users'[u].focus_minutes_today =
                 (IF users[u].focus_tracking_date = today
                  THEN users[u].focus_minutes_today ELSE 0) + ReportedMinutes(d)
            /\ response'.body.stars = users'[u].stars_earned
            /\ response'.body.focus_today = users'[u].focus_minutes_today
            /\ response'.body.points = users'[u].total_focus_points]_vars

\* C5 witness: a second session just completed, at a time after 0, by a
\* user with banked energy.
C5_Witness ==
    /\ response.kind = "json"
    /\ \E c \in Clients :
        /\ Authenticated(c)
        /\ users[session[c]].stars_earned = 2
        /\ response.body.stars = 2
        /\ users[session[c]].energy_bank_balance > 0
        /\ users[session[c]].last_energy_collection_time = now
        /\ now > 0

\* C6: a focus page view banks floor(e / 5) * s energy and moves the anchor
\* to now when that amount is positive, and changes neither otherwise; no
\* other step changes an energy balance; the amount is monotone in e and s,
\* and is 9 for s = 3, e = 17 (SpecEnergy).
C6_EnergyCollection ==
    /\ \A e1, e2 \in 0..MaxTime, s1, s2 \in 0..MaxStars :
        e1 <= e2 /\ s1 <= s2 => EnergyAccumulated(e1, s1) <= EnergyAccumulated(e2, s2)
    /\ EnergyAccumulated(17, 3) = 9
    /\ [][/\ \A c \in Clients : Authenticated(c) /\ show_focus_page(c) =>
                LET u == session[c]
                    e == now - users[u].last_energy_collection_time
                    amount == (e \div 5) * users[u].stars_earned
                IN  IF amount > 0
                    THEN /\ users'[u].energy_bank_balance =
                              users[u].energy_bank_balance + amount
                         /\ users'[u].last_energy_collection_time = now
                    ELSE /\ users'[u].energy_bank_balance = users[u].energy_bank_balance
                         /\ users'[u].last_energy_collection_time =
                              users[u].last_energy_collection_time
          /\ \A u \in Kept :
                users'[u].energy_bank_balance # users[u].energy_bank_balance =>
                    \E c \in Clients : session[c] = u /\ show_focus_page(c)]_vars

\* C6 witness: 3 stars and 17 seconds banked 9 energy, anchor at 17.
C6_Witness ==
    \E u \in DOMAIN users :
        /\ users[u].stars_earned = 3
        /\ users[u].energy_bank_balance = 9
        /\ users[u].last_energy_collection_time = 17
        /\ now = 17

\* The points an add-points body carries, 0 when it carries none.
SentPoints(d) == IF DOMAIN d = {} THEN 0 ELSE d.points

\* C7: add-points adds the amount sent to total_focus_points, leaves the
\* energy balance, the stars and the anchor alone, and returns the stored
\* total (SpecEnergy).
C7_AddPoints ==
    [][\A c \in Clients : Authenticated(c) =>
        LET u == session[c] IN
        \A d \in PointInputs : handle_add_focus_points(c, d) =>
            /\ users'[u].total_focus_points = users[u].total_focus_points + SentPoints(d)
            /\ users'[u].energy_bank_balance = users[u].energy_bank_balance
            /\ users'[u].stars_earned = users[u].stars_earned
            /\ users'[u].last_energy_collection_time = users[u].last_energy_collection_time
            /\ response'.body.total_points = users'[u].total_focus_points]_vars

\* C7 witness: one star, one unit of energy banked, and 10 points converted
\* from it on top of the session's 10.
C7_Witness ==
    /\ response.kind = "json"
    /\ "total_points" \in DOMAIN response.body
    /\ response.body.total_points = 20
    /\ \E u \in DOMAIN users :
        /\ users[u].stars_earned = 1
        /\ users[u].energy_bank_balance = 1
        /\ users[u].total_focus_points = 20

\* The priorities of the incomplete tasks of user u.
OpenPriorities(u) ==
    {tasks[t].priority_level :
        t \in {x \in DOMAIN tasks : tasks[x].user_id = u /\ ~tasks[x].is_completed}}

\* C8: the daily focus goal the dashboard shows is 30 when the caller has an
\* incomplete high task, else 15 for a medium one, else 10 for a low one,
\* else 0 (SpecTasks).
C8_DailyGoal ==
    [][\A c \in Clients : Authenticated(c) /\ show_dashboard(c) =>
        response'.body.daily_focus_goal =
            IF "high" \in OpenPriorities(session[c]) THEN 30
            ELSE IF "medium" \in OpenPriorities(session[c]) THEN 15
            ELSE IF "low" \in OpenPriorities(session[c]) THEN 10
            ELSE 0]_vars

\* C8 witness: the dashboard shows goal 10 to a caller whose high task is
\* completed and whose low task is open.
C8_Witness ==
    /\ response.to = "home.html"
    /\ response.body.daily_focus_goal = 10
    /\ \E c \in Clients :
        /\ Authenticated(c)
        /\ \E t \in DOMAIN tasks :
            /\ tasks[t].user_id = session[c]
            /\ tasks[t].priority_level = "high"
            /\ tasks[t].is_completed
        /\ OpenPriorities(session[c]) = {"low"}

\* C9: a new user has achievement_email_added exactly when registered with
\* an email; afterwards the flag is true exactly when it was true before or
\* the email is now non-empty; so a user with an email has the flag
\* (SpecAccounts).
C9_EmailAdded ==
    [][\A u \in DOMAIN users' :
        /\ u \notin DOMAIN users =>
             users'[u].achievement_email_added = (users'[u].email # None)
        /\ u \in DOMAIN users =>
             users'[u].achievement_email_added =
                (users[u].achievement_email_added \/ users'[u].email # None)
        /\ users'[u].email # None => users'[u].achievement_email_added]_vars

\* C9 witness: bea keeps the flag after her email was cleared.
C9_Witness ==
    \E u \in DOMAIN users :
        /\ users[u].username = "bea"
        /\ users[u].email = None
        /\ users[u].achievement_email_added

\* C10: a task update, toggle or delete and a note update or delete whose id
\* names no row of the caller changes no table (SpecOwned).
C10_NotOwnedNoOp ==
    [][\A c \in Clients : Authenticated(c) =>
        /\ \A t \in 1..(MaxRows + 1) :
            (t \notin DOMAIN tasks \/ tasks[t].user_id # session[c]) =>
                /\ handle_update_task(c, t, "medium") => UNCHANGED tables
                /\ handle_toggle_task(c, t) => UNCHANGED tables
                /\ handle_delete_task(c, t) => UNCHANGED tables
        /\ \A n \in 1..(MaxRows + 1) :
            (n \notin DOMAIN notes \/ notes[n].user_id # session[c]) =>
                /\ handle_update_note(c, n, "final") => UNCHANGED tables
                /\ handle_delete_note(c, n) => UNCHANGED tables]_vars

\* C10 witness: a user has just asked to toggle another user's incomplete
\* task, and the owner still has no points.
C10_Witness ==
    /\ request.route = "/task/toggle"
    /\ request.user \in DOMAIN users
    /\ request.arg \in DOMAIN tasks
    /\ tasks[request.arg].user_id # request.user
    /\ ~tasks[request.arg].is_completed
    /\ tasks[request.arg].user_id \in DOMAIN users
    /\ users[tasks[request.arg].user_id].total_focus_points = 0
    /\ users[request.user].total_focus_points = 0

\* Everything a request can mutate: the four tables and the sessions.
stored == <<users, tasks, notes, transactions, session>>

\* No two users share a username or a non-empty email.
UniqueIdentities ==
    \A u, v \in DOMAIN users : u # v =>
        /\ users[u].username # users[v].username
        /\ users[u].email # None => users[u].email # users[v].email

\* C11: a request that fails validation mutates nothing: a registration
\* with mismatched passwords, a taken username or a registered email; a login
\* answered as invalid; a profile update to another user's email; a password
\* change with a wrong current password or mismatched new ones; an account
\* deletion with a wrong password.  Usernames and non-empty emails stay
\* unique (SpecAccounts).
C11_ValidationAborts ==
    /\ []UniqueIdentities
    /\ [][\A c \in Clients :
        /\ \A n \in {"Bea", "Artur", "cy"}, e \in {"", "Bea@X.org", "artur@demo.com"},
             cp \in {"abc", "abd"} :
             ( /\ \/ cp # "abc"
                  \/ \E u \in DOMAIN users : users[u].username = StripLower(n)
                  \/ e # "" /\ \E u \in DOMAIN users : users[u].email = StripLower(e)
               /\ handle_registration(c, n, e, "abc", cp) )
             => UNCHANGED stored
        /\ \A n \in {"Artur", "bea", "Bea@X.org", "cy"}, p \in {"123", "abc"} :
             ( /\ handle_login(c, n, p)
               /\ response'.flash = <<"Invalid email/username or password">> )
             => UNCHANGED stored
        /\ Authenticated(c) =>
            /\ \A e \in {"Bea@X.org", "Artur@Demo.com"} :
                 ( /\ \E v \in DOMAIN users \ {session[c]} : users[v].email = StripLower(e)
                   /\ handle_update_profile(c, e) )
                 => UNCHANGED stored
            /\ \A p, q, r \in {"123", "abc"} :
                 ( /\ \/ users[session[c]].password_hash # generate_password_hash(p)
                      \/ q # r
                   /\ handle_change_password(c, p, q, r) )
                 => UNCHANGED stored
            /\ \A p \in {"123", "abc"} :
                 ( /\ users[session[c]].password_hash # generate_password_hash(p)
                   /\ handle_delete_account(c, p) )
                 => UNCHANGED stored]_vars

\* C11 witness: a user without an email has just been refused another
\* user's email.
C11_Witness ==
    /\ response.flash = <<"Email already in use">>
    /\ \E c \in Clients :
        /\ Authenticated(c)
        /\ users[session[c]].email = None
        /\ ~users[session[c]].achievement_email_added
        /\ Cardinality(DOMAIN users) = 2

\* The sum of the amounts of the transactions of user u that have type ty.
OwnSum(u, ty) ==
    SumAmounts({x \in DOMAIN transactions :
        transactions[x].user_id = u /\ transactions[x].transaction_type = ty})

\* Every amount of user u is a whole number of hundredths.
WholeCents(u) ==
    \A x \in DOMAIN transactions :
        transactions[x].user_id = u => transactions[x].transaction_amount % 10 = 0

\* C12: the budget page computes total_income and total_expenses as the sums
\* of the caller's income and expense amounts (0 without such rows) and the
\* balance as their difference, and shows each to two decimals; rows of other
\* users or other types count nowhere; with amounts in whole hundredths the
\* page shows the sums themselves and balance = income - expenses; the
\* dashboard shows the same balance; neither page writes (SpecBudget).
C12_BudgetTotals ==
    [][\A c \in Clients : Authenticated(c) =>
        LET u == session[c]
            income == OwnSum(u, "income")
            expenses == OwnSum(u, "expense")
        IN  /\ show_budget_page(c) =>
                /\ response'.body.total_income = Round2(income)
                /\ response'.body.total_expenses = Round2(expenses)
                /\ response'.body.current_balance = Round2(income - expenses)
                /\ WholeCents(u) =>
                    /\ response'.body.total_income = income
                    /\ response'.body.total_expenses = expenses
                    /\ response'.body.current_balance =
                         response'.body.total_income - response'.body.total_expenses
                /\ (\A x \in DOMAIN transactions :
                        transactions[x].user_id = u =>
                            transactions[x].transaction_type \notin {"income", "expense"})
                    => /\ response'.body.total_income = 0
                       /\ response'.body.total_expenses = 0
                /\ UNCHANGED stored
            /\ show_dashboard(c) =>
                /\ response'.body.current_balance = Round2(income - expenses)
                /\ UNCHANGED <<transactions, session>>]_vars

\* C12 witness: with income 100, expense 30 and expense 20 of the caller and
\* an income of another user, the budget page shows 100, 50 and 50.
C12_Witness ==
    /\ response.to = "budget.html"
    /\ response.body.total_income = 100000
    /\ response.body.total_expenses = 50000
    /\ response.body.current_balance = 50000
    /\ \E c \in Clients :
        /\ Authenticated(c)
        /\ Cardinality({x \in DOMAIN transactions :
                            transactions[x].user_id = session[c]}) = 3
        /\ \E x \in DOMAIN transactions :
            /\ transactions[x].user_id # session[c]
            /\ transactions[x].transaction_type = "income"

\* d tenths is (target - balance) / max(1, balance / 12) rounded to one
\* decimal, amounts in thousandths: 12 (target - balance) / max(12000, balance).
RoundedEstimate(d, target, balance) ==
    LET q == IF balance >= 12000 THEN balance ELSE 12000
        gap == 120 * (target - balance) - d * q
    IN  /\ d >= 0
        /\ 2 * gap <= q
        /\ 2 * (0 - gap) <= q

\* C13: the budget page gives an estimate exactly when a goal target is set,
\* whatever its value, and the balance is positive; the estimate is 0 when
\* the balance has reached the target and otherwise
\* max(0, (target - balance) / max(1, balance / 12)) to one decimal (SpecGoal).
C13_GoalEstimate ==
    [][\A c \in Clients : Authenticated(c) /\ show_budget_page(c) =>
        LET u == session[c]
            goal == users[u].savings_goal_target
            balance == OwnSum(u, "income") - OwnSum(u, "expense")
            estimate == response'.body.estimated_months_to_goal
        IN  IF goal # <<>> /\ balance > 0
            THEN /\ estimate # <<>>
                 /\ IF balance >= goal[1]
                    THEN estimate[1] = 0
                    ELSE RoundedEstimate(estimate[1], goal[1], balance)
            ELSE estimate = <<>>]_vars

\* The awards the finished requests of the threads in S have written.
RECURSIVE SumAwards(_)
SumAwards(S) ==
    IF S = {} THEN 0
    ELSE LET t == CHOOSE x \in S : TRUE
         IN  threads[t].award + SumAwards(S \ {t})

\* The threads that have served a request of user u to its end.
DoneFor(u) == {t \in Threads : threads[t].pc = "done" /\ threads[t].user = u}

\* C14: a commit that awards points writes the total its thread read plus
\* the award, whatever is stored by then, and changes no row or task of
\* another user; a user's total never exceeds the awards of that user's
\* finished requests, and equals them when the user has had a single request
\* or requests that did not overlap any other (SpecRace).
C14_LastWriteWins ==
    /\ [][\A t \in Threads :
            (threads[t].pc # "done" /\ threads'[t].pc = "done") =>
                LET u == threads[t].user IN
                /\ threads'[t].award > 0 =>
                     users'[u].total_focus_points =
                        threads[t].current_user.total_focus_points + threads'[t].award
                /\ threads'[t].award = 0 => users' = users
                /\ \A v \in DOMAIN users \ {u} : users'[v] = users[v]
                /\ \A k \in DOMAIN tasks : tasks[k].user_id # u => tasks'[k] = tasks[k]]_vars
    /\ [](\A u \in DOMAIN users :
            /\ users[u].total_focus_points <= SumAwards(DoneFor(u))
            /\ ( \/ Cardinality({t \in Threads : threads[t].user = u}) <= 1
                 \/ \A t \in Threads : threads[t].user = u => ~threads[t].overlapped )
               => users[u].total_focus_points = SumAwards(DoneFor(u)))

\* C14 witness: two overlapping toggles have completed artur's high and low
\* task, 40 points were awarded, and the total is 10.
C14_Witness ==
    /\ \A t \in Threads : threads[t].pc = "done" /\ threads[t].user = 1
    /\ tasks[1].is_completed
    /\ tasks[2].is_completed
    /\ SumAwards(Threads) = 40
    /\ users[1].total_focus_points = 10

\* C15: a task creation leaves the creator's achievement_first_task true, a
\* note creation achievement_first_note, a successful login
\* achievement_first_login, and none of the three changes anything else in
\* any user row: no counter, no other flag; so a repetition changes no user
\* row at all (SpecOwned).
C15_FirstOccurrence ==
    [][\A c \in Clients :
        /\ Authenticated(c) =>
            /\ \A p \in {"high", "low"} : handle_add_task(c, p) =>
                /\ users' = [users EXCEPT ![session[c]].achievement_first_task = TRUE]
                /\ users[session[c]].achievement_first_task => users' = users
                /\ \E t \in DOMAIN tasks' \ DOMAIN tasks : tasks'[t].user_id = session[c]
            /\ handle_add_note(c, "draft") =>
                /\ users' = [users EXCEPT ![session[c]].achievement_first_note = TRUE]
                /\ users[session[c]].achievement_first_note => users' = users
                /\ \E n \in DOMAIN notes' \ DOMAIN notes : notes'[n].user_id = session[c]
        /\ \A x \in {<<"artur", "123">>, <<"bea", "abc">>} :
            (handle_login(c, x[1], x[2]) /\ response'.to = "show_dashboard") =>
                /\ session'[c] \in DOMAIN users
                /\ users' = [users EXCEPT ![session'[c]].achievement_first_login = TRUE]
                /\ users[session'[c]].achievement_first_login => users' = users]_vars

\* C15 witness: a user who has earned points and held the flag already has
\* just created a task again after the earlier one was deleted.
C15_Witness ==
    /\ request.route = "/task/add"
    /\ response.flash = <<"Task added!">>
    /\ request.user \in DOMAIN users
    /\ users[request.user].achievement_first_task
    /\ users[request.user].total_focus_points > 0
    /\ \E t \in DOMAIN tasks : tasks[t].user_id = request.user /\ ~tasks[t].is_completed
    /\ Cardinality(DOMAIN tasks) = 1

\* C16: every user whose achievement_first_focus is true has completed a
\* focus session, that is, has at least one star (SpecEnergy).
C16_FocusMasterBySession ==
    \A u \in DOMAIN users :
        users[u].achievement_first_focus => users[u].stars_earned >= 1

\* C17: every task, note and transaction is owned by an existing user
\* (SpecDeletion).
C17_OwnedByExistingUser ==
    /\ \A t \in DOMAIN tasks : tasks[t].user_id \in DOMAIN users
    /\ \A n \in DOMAIN notes : notes[n].user_id \in DOMAIN users
    /\ \A x \in DOMAIN transactions : transactions[x].user_id \in DOMAIN users

====
